---- MODULE Spec2Model ----
(***************************************************************************)
(* Model of the job-assistant ledger: the Applications sheet and the       *)
(* handlers that read and write it (job_assistant.py, email_monitor.py,    *)
(* apply_bot.py, githubworkflows/job_assistant.py).                        *)
(*                                                                         *)
(* A text value (a cell, a link, a subject) is a sequence of tokens, so    *)
(* that "s in subject" is a contiguous-subsequence test and the empty      *)
(* string is <<>>.  A sheet row is a tuple of NCols cells; the sheet is    *)
(* the sequence of its rows up to the last row holding data, row 1 first.  *)
(***************************************************************************)
EXTENDS Integers, Sequences, FiniteSets, TLC

VARIABLES sheet, new_jobs_cache, pending_drafts, last

vars == <<sheet, new_jobs_cache, pending_drafts, last>>

(* ---------------- bounds ---------------- *)
MaxBatch == 2      \* candidates returned by one fetch
MaxRows  == 4      \* rows of the sheet, header included

(* ---------------- column layout (module docstring) ---------------- *)
ColA == 1
ColB == 2
ColC == 3
ColD == 4
ColE == 5
ColF == 6
ColG == 7
ColH == 8
ColI == 9
ColJ == 10
ColK == 11
ColL == 12
ColM == 13
NCols == 13

EMPTY == <<>>
StatusNEW == <<"NEW">>
StatusSUBMITTED == <<"SUBMITTED">>
Applied == <<"Applied">>
Now == <<"ts">>

BlankRow == [c \in 1..NCols |-> EMPTY]

HeaderRow ==
  << <<"Source">>, <<"Company Name">>, <<"Field of Activity">>, <<"Job Location">>,
     <<"Number of Employees">>, <<"Money Raised (ILS)">>, <<"Major Clients (JSON)">>,
     <<"Job Link">>, <<"Date Found">>, <<"Status">>, <<"Resume File">>,
     <<"Cover File">>, <<"Response Status">> >>

(* ---------------- the outside world, bounded ---------------- *)
Link1a == <<"https://x/1", "?utm=a">>
Link1b == <<"https://x/1", "?utm=b">>
Link2  == <<"https://x/2">>
Link3  == <<"https://x/3">>
Links  == {Link1a, Link1b, Link2, Link3}

Job1a == [source |-> <<"LinkedIn">>, title |-> <<"Product", "Manager">>, link |-> Link1a]
Job1b == [source |-> <<"AllJobs">>,  title |-> <<"Product", "Manager">>, link |-> Link1b]
Job2  == [source |-> <<"LinkedIn">>, title |-> <<"Product", "Owner">>,   link |-> Link2]

Job3  == [source |-> <<"AllJobs">>,  title |-> <<"Chef">>,               link |-> Link3]

(* the candidates the configured sources list *)
Jobs == {Job1a, Job1b}

(* the same with a posting whose page cannot be fetched (Job2) and one whose *)
(* title is none of the configured titles (Job3)                            *)
BatchJobs == {Job1a, Job1b, Job2, Job3}

RECURSIVE SeqsUpTo(_, _)
SeqsUpTo(S, n) ==
  IF n = 0 THEN {<<>>}
  ELSE LET shorter == SeqsUpTo(S, n - 1)
       IN  shorter \cup {Append(q, x) : q \in {p \in shorter : Len(p) = n - 1}, x \in S}

JobSeqs == SeqsUpTo(Jobs, MaxBatch)

BatchJobSeqs == SeqsUpTo(BatchJobs, MaxBatch)

Max(S) == CHOOSE x \in S : \A y \in S : y <= x

(* s is a contiguous part of t: Python's `s in t` on strings *)
Contains(s, t) ==
  \E k \in 0..(Len(t) - Len(s)) : SubSeq(t, k + 1, k + Len(s)) = s

(* ---------------- Sheets API ---------------- *)
(* values().get of one whole column: one list per row up to the last row   *)
(* with data in that column; a row whose cell is empty comes back as [].   *)
LastRowOf(s, c) == Max({0} \cup {i \in 1..Len(s) : s[i][c] # EMPTY})

ValuesGet(s, c) ==
  [i \in 1..LastRowOf(s, c) |-> IF s[i][c] = EMPTY THEN <<>> ELSE <<s[i][c]>>]

(* the grid has empty rows below the data: a write there makes them data *)
Extend(s, r) ==
  IF r <= Len(s) THEN s ELSE s \o [i \in 1..(r - Len(s)) |-> BlankRow]

(* mutant: the cells are written below the last row instead of at row r *)
ValuesUpdate_Append(s, r, c, cells) ==
  [i \in 1..(Len(s) + 1) |->
     IF i <= Len(s) THEN s[i]
     ELSE [k \in 1..NCols |->
             IF k >= c /\ k < c + Len(cells) THEN cells[k - c + 1] ELSE EMPTY]]

(* values().update of one row's cells, from column c on *)
ValuesUpdate(s, r, c, cells) ==
  LET g == Extend(s, r)
  IN  [g EXCEPT ![r] = [k \in 1..NCols |->
         IF k >= c /\ k < c + Len(cells) THEN cells[k - c + 1] ELSE g[r][k]]]

(* values().update of a block of whole rows starting at row r *)
ValuesUpdateRows(s, r, rows) ==
  LET g == Extend(s, r + Len(rows) - 1)
  IN  [i \in 1..Len(g) |-> IF i >= r /\ i < r + Len(rows) THEN rows[i - r + 1] ELSE g[i]]

(* mutant: no rows are inserted before the block is written *)
InsertRows_None(s, n) == s

(* insertDimension ROWS startIndex 1, endIndex 1+n: n blank rows below row 1 *)
InsertRows(s, n) ==
  SubSeq(s, 1, 1) \o [i \in 1..n |-> BlankRow] \o SubSeq(s, 2, Len(s))

(* values().append on columns c1..c2: the table found in the range ends at *)
(* the last row holding data in it; the rows are written below that row,  *)
(* from column c1 on, over whatever the other columns hold there           *)
TableEnd(s, c1, c2) == Max({LastRowOf(s, c) : c \in c1..c2})

RECURSIVE AppendFrom(_, _, _, _, _)
AppendFrom(s, r, c1, rows, n) ==
  IF n = 0 THEN s
  ELSE ValuesUpdate(AppendFrom(s, r, c1, rows, n - 1), r + n, c1, rows[n])

ValuesAppend(s, c1, c2, rows) == AppendFrom(s, TableEnd(s, c1, c2), c1, rows, Len(rows))


(* ---------------- collaborators of one candidate ---------------- *)
(* What the detail page, the geocoder and the company-info completion give *)
(* for one link.  sal 0 stands for None (both falsy where it is read),     *)
(* dist -1 for None (geocoding failed or found nothing).  The page of      *)
(* Link2 cannot be fetched and its completion is not JSON: every           *)
(* collaborator falls back to its except branch.                           *)
DefaultInfo ==
  [company_name |-> EMPTY, field_of_activity |-> EMPTY, num_employees |-> EMPTY,
   money_raised_ils |-> EMPTY, clients |-> <<"[]">>]

AcmeInfo ==
  [company_name |-> <<"Acme">>, field_of_activity |-> <<"Software">>,
   num_employees |-> <<"50">>, money_raised_ils |-> <<"1000000">>,
   clients |-> <<"[\"Bank\"]">>]

(* get_job_details(link) and the geocoded distance of its location *)
JobDetails(link) ==
  IF link = Link2 THEN [loc |-> EMPTY, sal |-> 0, dist |-> -1]
  ELSE [loc |-> <<"Tel Aviv">>, sal |-> 20000, dist |-> 30]

(* get_company_info(link) *)
CompanyInfo(link) == IF link = Link2 THEN DefaultInfo ELSE AcmeInfo

Cfg ==
  [job_titles |-> {<<"Product">>}, salary_min_ils |-> 0, salary_max_ils |-> 9999999,
   location_radius_km |-> 50, train_allowed |-> FALSE, train_radius_km |-> 2]

(* ---------------- job_assistant.py: record_new ---------------- *)
(* the dedup key of a candidate is its link as fetched *)
Identity(link) == link

(* exist = {r[0] for r in H:H}: r[0] raises IndexError on an empty row *)
ExistRaises(s) == \E i \in 1..LastRowOf(s, ColH) : ValuesGet(s, ColH)[i] = <<>>

Exist(s) == {ValuesGet(s, ColH)[i][1] : i \in 1..LastRowOf(s, ColH)}

(* mutant: every candidate is kept, known or not *)
NewIdx_NoDedup(jobs, exist, n) == [k \in 1..n |-> k]

(* the positions of jobs kept by [j for j in jobs if j['link'] not in exist] *)
RECURSIVE NewIdx(_, _, _)
NewIdx(jobs, exist, n) ==
  IF n = 0 THEN <<>>
  ELSE IF Identity(jobs[n].link) \notin exist
       THEN Append(NewIdx(jobs, exist, n - 1), n)
       ELSE NewIdx(jobs, exist, n - 1)

NewRow(j) ==
  LET info == CompanyInfo(j.link)
  IN  << j.source, info.company_name, info.field_of_activity, JobDetails(j.link).loc,
         info.num_employees, info.money_raised_ils, info.clients,
         j.link, Now, StatusNEW, EMPTY, EMPTY, EMPTY >>

(* the sheet after record_new has inserted and written the rows of idx *)
RecordRows(s, jobs, idx) ==
  ValuesUpdateRows(InsertRows(s, Len(idx)), 2, [k \in 1..Len(idx) |-> NewRow(jobs[idx[k]])])

(* ---------------- job_assistant.py: filter_jobs ---------------- *)
Relevant(j, cfg) ==
  LET w == JobDetails(j.link) IN
  /\ \E t \in cfg.job_titles : Contains(t, j.title)
  /\ ~(w.sal # 0 /\ (w.sal < cfg.salary_min_ils \/ w.sal > cfg.salary_max_ils))
  /\ LET dist == IF w.loc # EMPTY THEN w.dist ELSE -1
     IN  \/ dist # -1 /\ dist <= cfg.location_radius_km
         \/ cfg.train_allowed /\ dist # -1 /\ dist <= cfg.train_radius_km

(* mutant: the postings kept come out last first *)
RECURSIVE FilterIdx_Reversed(_, _, _, _)
FilterIdx_Reversed(jobs, cfg, idx, n) ==
  IF n = 0 THEN <<>>
  ELSE IF Relevant(jobs[idx[n]], cfg)
       THEN <<idx[n]>> \o FilterIdx_Reversed(jobs, cfg, idx, n - 1)
       ELSE FilterIdx_Reversed(jobs, cfg, idx, n - 1)

RECURSIVE FilterIdx(_, _, _, _)
FilterIdx(jobs, cfg, idx, n) ==
  IF n = 0 THEN <<>>
  ELSE IF Relevant(jobs[idx[n]], cfg)
       THEN Append(FilterIdx(jobs, cfg, idx, n - 1), idx[n])
       ELSE FilterIdx(jobs, cfg, idx, n - 1)

Pick(jobs, idx) == [k \in 1..Len(idx) |-> jobs[idx[k]]]

LinksOf(jobs) == {jobs[k].link : k \in 1..Len(jobs)}

(* ---------------- job_assistant.py: scheduled_task ---------------- *)
(* one bot.send_message: which text, and the numbers that text carries *)
NoNewMessage == [text |-> "No new jobs.", counts |-> [k \in {} |-> 0], list |-> <<>>]

NoneRelevantMessage(n) ==
  [text |-> "Found n new, none relevant.", counts |-> [k \in {"new"} |-> n], list |-> <<>>]

(* lines = ['Relevant new jobs:'] then "i. title (link)" for i, j in enumerate(relevant, 1) *)
RelevantMessage(relevant) ==
  [text |-> "Relevant new jobs:", counts |-> [k \in {} |-> 0],
   list |-> [i \in 1..Len(relevant) |-> [n |-> i, link |-> relevant[i].link]]]

ScheduledTask(jobs) ==
  IF ExistRaises(sheet)
  THEN /\ last' = [op |-> "scheduled_task", out |-> "IndexError",
                   arg |-> [links |-> LinksOf(jobs), inserted |-> 0,
                            new |-> <<>>, sent |-> <<>>]]
       /\ UNCHANGED <<sheet, new_jobs_cache, pending_drafts>>
  ELSE LET idx == NewIdx(jobs, Exist(sheet), Len(jobs))
           rel == FilterIdx(jobs, Cfg, idx, Len(idx))
       IN  IF idx = <<>>
           THEN /\ last' = [op |-> "scheduled_task", out |-> "No new jobs.",
                            arg |-> [links |-> LinksOf(jobs), inserted |-> 0,
                                     new |-> <<>>, sent |-> <<NoNewMessage>>]]
                /\ UNCHANGED <<sheet, new_jobs_cache, pending_drafts>>
           ELSE /\ Len(sheet) + Len(idx) <= MaxRows
                /\ sheet' = RecordRows(sheet, jobs, idx)
                /\ new_jobs_cache' = IF rel = <<>> THEN Pick(jobs, idx) ELSE Pick(jobs, rel)
                /\ last' = [op |-> "scheduled_task",
                            out |-> IF rel = <<>> THEN "none relevant" ELSE "Relevant new jobs",
                            arg |-> [links |-> LinksOf(jobs), inserted |-> Len(idx),
                                     new |-> Pick(jobs, idx),
                                     sent |-> IF rel = <<>>
                                              THEN <<NoneRelevantMessage(Len(idx))>>
                                              ELSE <<RelevantMessage(Pick(jobs, rel))>>]]
                /\ UNCHANGED pending_drafts

(* scheduled_task cut short, by an API call of record_new that raises or by *)
(* the process ending:                                                     *)
(* at = "details": insertDimension has executed and the run ends in the    *)
(*   loop that calls get_job_details and get_company_info for each posting;*)
(* at = "update": insertDimension has executed and values().update raises; *)
(* at = "filter": the rows are written, new_jobs_cache = new, and the run  *)
(*   ends before filter_jobs returns                                       *)
AbortPoints == {"details", "update", "filter"}

ScheduledTaskAborted(jobs, at) ==
  LET idx == NewIdx(jobs, Exist(sheet), Len(jobs))
  IN  /\ ~ExistRaises(sheet)
      /\ idx # <<>>
      /\ Len(sheet) + Len(idx) <= MaxRows
      /\ sheet' = IF at = "filter" THEN RecordRows(sheet, jobs, idx)
                                   ELSE InsertRows(sheet, Len(idx))
      /\ new_jobs_cache' = IF at = "filter" THEN Pick(jobs, idx) ELSE new_jobs_cache
      /\ last' = [op |-> "scheduled_task_aborted", out |-> at,
                  arg |-> [links |-> LinksOf(jobs), inserted |-> Len(idx),
                           new |-> Pick(jobs, idx), sent |-> <<>>]]
      /\ UNCHANGED pending_drafts

(* ---------------- chat command arguments ---------------- *)
(* an argument is a token; -1 stands for a token that is not all digits *)
CommandLines == {<<>>, <<1>>, <<2>>, <<1, 2>>, <<0, 1>>, <<-1, 2>>, <<1, 1>>}

(* nums = [int(x) for x in args if x.isdigit()] *)
Nums(args) == SelectSeq(args, LAMBDA x : x >= 0)

EmptyDict == [n \in {} |-> <<>>]

(* ---------------- job_assistant.py: draft_command (/apply) ---------------- *)
(* sel = [new_jobs_cache[n-1] for n in nums if 1 <= n <= len(new_jobs_cache)] *)
RECURSIVE SelectJobs(_, _, _)
SelectJobs(nums, cache, n) ==
  IF n = 0 THEN <<>>
  ELSE IF 1 <= nums[n] /\ nums[n] <= Len(cache)
       THEN Append(SelectJobs(nums, cache, n - 1), cache[nums[n]])
       ELSE SelectJobs(nums, cache, n - 1)

ResumeLink(job) == <<"drive/resume">> \o job.link
CoverLink(job)  == <<"drive/cover">> \o job.link

DraftOf(job) == [job |-> job, resume |-> ResumeLink(job), cover |-> CoverLink(job)]

(* for idx, job in zip(nums, sel): drafts[idx] = {...}; a later pair overwrites *)
Drafts(nums, sel) ==
  LET n    == IF Len(nums) < Len(sel) THEN Len(nums) ELSE Len(sel)
      keys == {nums[k] : k \in 1..n}
  IN  [key \in keys |-> DraftOf(sel[Max({k \in 1..n : nums[k] = key})])]

(* failAt = k: the completion or its split raises for the k-th pair; 0: none does *)
(* the links of the selected postings other than the failAt-th one *)
Others(sel, failAt) ==
  {sel[k].link : k \in (1..Len(sel)) \ {failAt}}
    \ (IF failAt = 0 THEN {} ELSE {sel[failAt].link})

DraftCommand(args) ==
  LET nums == Nums(args)
      sel  == SelectJobs(nums, new_jobs_cache, Len(nums))
  IN  \E failAt \in 0..Len(sel) :
      /\ IF args = <<>>
         THEN /\ last' = [op |-> "apply", out |-> "Usage", arg |-> <<>>]
              /\ UNCHANGED pending_drafts
         ELSE IF sel = <<>>
         THEN /\ last' = [op |-> "apply", out |-> "No valid job numbers.", arg |-> <<>>]
              /\ UNCHANGED pending_drafts
         ELSE IF failAt # 0
         THEN /\ last' = [op |-> "apply", out |-> "raised",
                          arg |-> [others |-> Others(sel, failAt)]]
              /\ UNCHANGED pending_drafts
         ELSE /\ pending_drafts' = Drafts(nums, sel)
              /\ last' = [op |-> "apply", out |-> "Drafts",
                          arg |-> [others |-> LinksOf(sel)]]
      /\ UNCHANGED <<sheet, new_jobs_cache>>

(* ---------------- job_assistant.py: approve_command (/approve) ---------------- *)
(* sel = [pending_drafts.get(n) for n in nums if pending_drafts.get(n)] *)
RECURSIVE SelectDrafts(_, _, _)
SelectDrafts(nums, drafts, n) ==
  IF n = 0 THEN <<>>
  ELSE IF nums[n] \in DOMAIN drafts
       THEN Append(SelectDrafts(nums, drafts, n - 1), drafts[nums[n]])
       ELSE SelectDrafts(nums, drafts, n - 1)

(* the first position of vals whose row is non-empty and equals link; 0: none *)
FirstMatch(vals, link) ==
  LET hits == {k \in 1..Len(vals) : vals[k] # <<>> /\ vals[k][1] = link}
  IN  IF hits = {} THEN 0 ELSE CHOOSE k \in hits : \A h \in hits : k <= h

(* enumerate(vals, start=2): the k-th element of vals is numbered k + 1 *)
ApproveRowOf(k) == k + 1

(* mutant: the resume link is written empty *)
ApproveCells_NoResume(entry) == <<StatusSUBMITTED, EMPTY, entry.cover>>

(* body = [['SUBMITTED', entry['resume'], entry['cover']]] written at K{i}:M{i} *)
ApproveCells(entry) == <<StatusSUBMITTED, entry.resume, entry.cover>>

RECURSIVE ApproveAll(_, _, _, _)
ApproveAll(s, vals, sel, n) ==
  IF n = 0 THEN s
  ELSE LET before == ApproveAll(s, vals, sel, n - 1)
           k      == FirstMatch(vals, sel[n].job.link)
       IN  IF k = 0 THEN before
           ELSE ValuesUpdate(before, ApproveRowOf(k), ColK, ApproveCells(sel[n]))

ApproveCommand(args) ==
  LET nums == Nums(args)
      sel  == SelectDrafts(nums, pending_drafts, Len(nums))
  IN  IF sel = <<>>
      THEN /\ last' = [op |-> "approve", out |-> "No valid drafts to approve.", arg |-> <<>>]
           /\ UNCHANGED <<sheet, new_jobs_cache, pending_drafts>>
      ELSE LET after == ApproveAll(sheet, ValuesGet(sheet, ColH), sel, Len(sel))
           IN  /\ Len(after) <= MaxRows
               /\ sheet' = after
               /\ pending_drafts' = EmptyDict
               /\ last' = [op |-> "approve", out |-> "Approved", arg |-> [sel |-> sel]]
               /\ UNCHANGED new_jobs_cache

(* approve_command cut short by a call that raises, before the last         *)
(* statement pending_drafts.clear(): at <= len(sel): values().update raises *)
(* for the at-th entry, the entries before it are written; at = len(sel)+1: *)
(* every entry is written and reply_text raises                             *)
ApproveCommandAborted(args, at) ==
  LET nums == Nums(args)
      sel  == SelectDrafts(nums, pending_drafts, Len(nums))
      vals == ValuesGet(sheet, ColH)
  IN  /\ sel # <<>>
      /\ at \in 1..(Len(sel) + 1)
      /\ at <= Len(sel) => FirstMatch(vals, sel[at].job.link) # 0
      /\ Len(ApproveAll(sheet, vals, sel, at - 1)) <= MaxRows
      /\ sheet' = ApproveAll(sheet, vals, sel, at - 1)
      /\ last' = [op |-> "approve", out |-> "raised", arg |-> [sel |-> sel]]
      /\ UNCHANGED <<new_jobs_cache, pending_drafts>>

(* ---------------- email_monitor.py: process_responses ---------------- *)
(* an unread reply: its subject, what classify_response returns for its    *)
(* body ("RAISE": the completion raises) and whether draft_reply raises    *)
Subjects ==
  { <<"Re:", "Application">> \o Link1b,
    <<"Re:", "Software", "role">>,
    <<"Re:", "hello">> }

Classifications == {"positive", "negative", "RAISE"}

Replies ==
  [subject : Subjects, cls : Classifications, draft : {"ok"}]
    \cup [subject : Subjects, cls : {"positive"}, draft : {"RAISE"}]

(* next(i for i, row in enumerate(sheet_data) if row and row[0] in subject), *)
(* as a position of sheet_data counted from 1; 0: None                      *)
MatchRow(data, subject) ==
  LET hits == {k \in 1..Len(data) : data[k] # <<>> /\ Contains(data[k][1], subject)}
  IN  IF hits = {} THEN 0 ELSE CHOOSE k \in hits : \A h \in hits : k <= h

(* cell = F{row_index+2}, row_index counted from 0: position k is row k + 1 *)
ReplyRowOf(k) == k + 1

(* mutant: a draft_reply that raises takes the cell update with it *)
OnDraftFailure_Lost(before, after, m) ==
  [sheet |-> before, out |-> "draft raised", matched |-> m]

(* draft_reply raises after values().update has executed: the update stays *)
OnDraftFailure(before, after, m) ==
  [sheet |-> after, out |-> "draft raised", matched |-> m]

(* the loop over msgs from the i-th on; data is the C:C snapshot read before it *)
RECURSIVE Reconcile(_, _, _, _, _)
Reconcile(s, data, msgs, i, matched) ==
  IF i > Len(msgs) THEN [sheet |-> s, out |-> "done", matched |-> matched]
  ELSE IF msgs[i].cls = "RAISE"
       THEN [sheet |-> s, out |-> "classify raised", matched |-> matched]
  ELSE LET k == MatchRow(data, msgs[i].subject)
       IN  IF k = 0 THEN Reconcile(s, data, msgs, i + 1, matched)
           ELSE LET t == ValuesUpdate(s, ReplyRowOf(k), ColF, << <<msgs[i].cls>> >>)
                    m == Append(matched, [row |-> k, cls |-> <<msgs[i].cls>>,
                                          written |-> ReplyRowOf(k), msg |-> i])
                IN  IF msgs[i].cls = "positive" /\ msgs[i].draft = "RAISE"
                    THEN OnDraftFailure(s, t, m)
                    ELSE Reconcile(t, data, msgs, i + 1, m)

(* the poll lists the messages the previous poll listed: they are still unread *)
Redelivered(l, msgs) ==
  l.op = "process_responses" /\ l.out # "No new responses" /\ l.arg.msgs = msgs

ProcessResponses(msgs) ==
  IF msgs = <<>>
  THEN /\ last' = [op |-> "process_responses", out |-> "No new responses", arg |-> <<>>]
       /\ UNCHANGED <<sheet, new_jobs_cache, pending_drafts>>
  ELSE LET r == Reconcile(sheet, ValuesGet(sheet, ColC), msgs, 1, <<>>)
       IN  /\ Len(r.sheet) <= MaxRows
           /\ sheet' = r.sheet
           /\ last' = [op |-> "process_responses", out |-> r.out,
                       arg |-> [matched |-> r.matched, msgs |-> msgs,
                                redelivered |-> Redelivered(last, msgs)]]
           /\ UNCHANGED <<new_jobs_cache, pending_drafts>>

(* ---------------- githubworkflows/job_assistant.py ---------------- *)
(* generate_documents names the two files by the clock *)
GenerateDocuments(job) == [resume |-> <<"resume_ts.txt">>, cover |-> <<"cover_ts.txt">>]

(* filter_relevant: the completion answers yes for the titles it finds relevant *)
AnswersYes(job) == Contains(<<"Product">>, job.title)

FilterRelevant(jobs) == SelectSeq(jobs, AnswersYes)

(* apply_to_job appends [title, link, now, 'Applied'] at Applications!A:D *)
AppliedRow(job) == <<job.title, job.link, Now, Applied>>

(* failAt = k: generate_documents or send_email raises for the k-th relevant job *)
JobPipeline(jobs) ==
  LET relevant == FilterRelevant(jobs)
  IN  \E failAt \in 0..Len(relevant) :
        LET done == IF failAt = 0 THEN Len(relevant) ELSE failAt - 1
            after == ValuesAppend(sheet, ColA, ColD, [k \in 1..done |-> AppliedRow(relevant[k])])
        IN  /\ Len(after) <= MaxRows
            /\ sheet' = after
            /\ last' = [op |-> "job_pipeline",
                        out |-> IF failAt = 0 THEN "Job pipeline run complete." ELSE "raised",
                        arg |-> [others |-> Others(relevant, failAt)]]
            /\ UNCHANGED <<new_jobs_cache, pending_drafts>>

(* ---------------- fetch_jobs ---------------- *)
(* what one source gives when it is scraped: ok = FALSE when the request or *)
(* the parsing of its page raises, else the candidates parsed from the page *)
PageResults ==
  {[ok |-> FALSE, jobs |-> <<>>]} \cup {[ok |-> TRUE, jobs |-> q] : q \in SeqsUpTo(Jobs, 1)}

(* sources_json of the Config tab lists two sources *)
PageSeqs == {<<p, q>> : p \in PageResults, q \in PageResults}

(* JOB_SOURCES of the workflow lists one source *)
WorkflowPageSeqs == {<<p>> : p \in PageResults}

(* job_assistant.py fetch_jobs: the body of the loop is in try/except, a    *)
(* source that raises is logged and the loop goes on                       *)
RECURSIVE FetchJobs(_, _)
FetchJobs(pages, n) ==
  IF n = 0 THEN <<>>
  ELSE IF pages[n].ok THEN FetchJobs(pages, n - 1) \o pages[n].jobs
       ELSE FetchJobs(pages, n - 1)

(* githubworkflows fetch_jobs: no try/except, the first source that raises *)
(* ends the function with its exception                                    *)
WorkflowFetchRaises(pages) == \E n \in 1..Len(pages) : ~pages[n].ok

RECURSIVE WorkflowFetch(_, _)
WorkflowFetch(pages, n) ==
  IF n = 0 THEN <<>> ELSE WorkflowFetch(pages, n - 1) \o pages[n].jobs

(* job_pipeline from its first line: jobs = fetch_jobs() *)
JobPipelineRun(pages) ==
  IF WorkflowFetchRaises(pages)
  THEN /\ last' = [op |-> "job_pipeline", out |-> "fetch raised", arg |-> [others |-> {}]]
       /\ UNCHANGED <<sheet, new_jobs_cache, pending_drafts>>
  ELSE JobPipeline(WorkflowFetch(pages, Len(pages)))

(* ---------------- apply_bot.py: handler ---------------- *)
(* jobs[i] with Python's indexing: i counts from 0, a negative i from the end *)
PyIndexOk(jobs, i) == -Len(jobs) <= i /\ i < Len(jobs)
PyIndex(jobs, i) == IF i >= 0 THEN jobs[i + 1] ELSE jobs[Len(jobs) + i + 1]

(* [source, title, link, now, "SUBMITTED", resume, cover] at A:G *)
SubmittedRow(job, docs) ==
  <<job.source, job.title, job.link, Now, StatusSUBMITTED, docs.resume, docs.cover>>

SubmitAll(s, chosen) ==
  ValuesAppend(s, ColA, ColG,
    [k \in 1..Len(chosen) |-> SubmittedRow(chosen[k], GenerateDocuments(chosen[k]))])

(* the jobs new_jobs_cache.json lists *)
CacheFile == <<Job1b, Job2>>

(* text: the message's tokens (-1: not an integer); file: new_jobs_cache.json *)
Handler(text, file) ==
  IF \/ \E k \in 1..Len(text) : text[k] < 0
     \/ \E k \in 1..Len(text) : ~PyIndexOk(file, text[k] - 1)
  THEN /\ last' = [op |-> "apply_bot", out |-> "Send job numbers", arg |-> <<>>]
       /\ UNCHANGED <<sheet, new_jobs_cache, pending_drafts>>
  ELSE LET chosen == [k \in 1..Len(text) |-> PyIndex(file, text[k] - 1)]
       IN  \E failAt \in 0..Len(chosen) :
             IF failAt # 0
             THEN /\ last' = [op |-> "apply_bot", out |-> "raised",
                              arg |-> [others |-> Others(chosen, failAt)]]
                  /\ UNCHANGED <<sheet, new_jobs_cache, pending_drafts>>
             ELSE /\ Len(SubmitAll(sheet, chosen)) <= MaxRows
                  /\ sheet' = SubmitAll(sheet, chosen)
                  /\ last' = [op |-> "apply_bot", out |-> "Submitted",
                              arg |-> [others |-> LinksOf(chosen)]]
                  /\ UNCHANGED <<new_jobs_cache, pending_drafts>>

(* the unread replies one poll lists *)
Polls == {<<>>} \cup {<<r>> : r \in Replies}

(* module state: pending_drafts = {}, new_jobs_cache = []; the sheet holds its header *)
Init ==
  /\ sheet = <<HeaderRow>>
  /\ new_jobs_cache = <<>>
  /\ pending_drafts = EmptyDict
  /\ last = [op |-> "init", out |-> "none", arg |-> <<>>]

(* the polls whose reply quotes no link: a link is in column C only in the *)
(* rows the apply bot appends                                              *)
PlainPolls == {msgs \in Polls : \A i \in 1..Len(msgs) : ~Contains(Link1b, msgs[i].subject)}

(* the chat bot with its scheduled batch, and the reply monitor *)
Next ==
  \/ \E jobs \in JobSeqs : ScheduledTask(jobs)
  \/ \E args \in CommandLines : DraftCommand(args)
  \/ \E args \in CommandLines : ApproveCommand(args)
  \/ \E msgs \in PlainPolls : ProcessResponses(msgs)

Spec == Init /\ [][Next]_vars

(* the same with the apply bot appending to the same tab *)
NextLedger ==
  \/ \E jobs \in JobSeqs : ScheduledTask(jobs)
  \/ \E args \in CommandLines : DraftCommand(args)
  \/ \E args \in CommandLines : ApproveCommand(args)
  \/ \E msgs \in Polls : ProcessResponses(msgs)
  \/ \E text \in CommandLines \ {<<>>} : Handler(text, CacheFile)

SpecLedger == Init /\ [][NextLedger]_vars

(* the scheduled workflow pipeline and the reply monitor on the same tab *)
NextWorkflow ==
  \/ \E jobs \in JobSeqs : JobPipeline(jobs)
  \/ \E msgs \in Polls : ProcessResponses(msgs)

SpecWorkflow == Init /\ [][NextWorkflow]_vars

(* the chat bot whose batch can be cut short by a failing API call *)
NextCrash ==
  \/ \E jobs \in JobSeqs : ScheduledTask(jobs)
  \/ \E jobs \in JobSeqs : \E at \in AbortPoints : ScheduledTaskAborted(jobs, at)
  \/ \E args \in CommandLines : DraftCommand(args)
  \/ \E args \in CommandLines : ApproveCommand(args)

SpecCrash == Init /\ [][NextCrash]_vars

(* polls that list two unread replies *)
PairReplies ==
  [subject : {<<"Re:", "Software", "role">>, <<"Re:", "hello">>},
   cls : Classifications, draft : {"ok"}]

Polls2 == {<<a, b>> : a \in PairReplies, b \in PairReplies}

(* the scheduled batch and the reply monitor polling one or two replies *)
NextMonitor ==
  \/ \E jobs \in JobSeqs : ScheduledTask(jobs)
  \/ \E msgs \in Polls \cup Polls2 : ProcessResponses(msgs)

SpecMonitor == Init /\ [][NextMonitor]_vars

(* the two batch runners, each from its fetch on *)
NextFetch ==
  \/ \E pages \in PageSeqs : ScheduledTask(FetchJobs(pages, Len(pages)))
  \/ \E pages \in WorkflowPageSeqs : JobPipelineRun(pages)

SpecFetch == Init /\ [][NextFetch]_vars

(* the chat bot with batches that bring irrelevant postings too *)
NextBatch ==
  \/ \E jobs \in BatchJobSeqs : ScheduledTask(jobs)
  \/ \E args \in CommandLines : DraftCommand(args)
  \/ \E args \in CommandLines : ApproveCommand(args)

SpecBatch == Init /\ [][NextBatch]_vars

(* the scheduled batch alone, run after run *)
NextScan ==
  \E jobs \in BatchJobSeqs : ScheduledTask(jobs)

SpecScan == Init /\ [][NextScan]_vars

(* a completion that answers with a sentence instead of the one word asked for; *)
(* classify_response returns it stripped and lowercased, whatever it is        *)
FreeClassifications == {"positive", "negative", "it seems positive."}

FreeReplies ==
  [subject : {<<"Re:", "Software", "role">>}, cls : FreeClassifications, draft : {"ok"}]

FreePolls == {<<r>> : r \in FreeReplies}

(* the scheduled batch and the reply monitor with a free-text classifier *)
NextClassify ==
  \/ \E jobs \in JobSeqs : ScheduledTask(jobs)
  \/ \E msgs \in FreePolls : ProcessResponses(msgs)

SpecClassify == Init /\ [][NextClassify]_vars

(* the chat bot whose /approve can be cut short by a failing API call *)
NextApprove ==
  \/ \E jobs \in JobSeqs : ScheduledTask(jobs)
  \/ \E args \in CommandLines : DraftCommand(args)
  \/ \E args \in CommandLines : ApproveCommand(args)
  \/ \E args \in CommandLines : \E at \in 1..(MaxBatch + 1) : ApproveCommandAborted(args, at)

SpecApprove == Init /\ [][NextApprove]_vars

(* ---------------- the ledger as the module docstring lays it out ---------------- *)
DataRows(s) == 2..Len(s)
LinkOf(row)     == row[ColH]
StatusOf(row)   == row[ColJ]
ResumeOf(row)   == row[ColK]
CoverOf(row)    == row[ColL]
ResponseOf(row) == row[ColM]

(* where row i of the sheet is after the step that last describes: a batch *)
(* inserts its rows below the header, every other handler leaves rows in place *)
Moved(i, l) ==
  IF l.op \in {"scheduled_task", "scheduled_task_aborted"} THEN i + l.arg.inserted ELSE i

RowsWithLink(s, link) == {i \in DataRows(s) : LinkOf(s[i]) = link}

(* the link without its query string: scheme, host and path *)
Canon(link) == SubSeq(link, 1, 1)

(* C1: the ledger never holds two rows with the same identity (link). *)
C1_UniqueIdentity ==
  \A i, j \in DataRows(sheet) :
    (i # j /\ LinkOf(sheet[i]) # EMPTY) =>
      Identity(LinkOf(sheet[i])) # Identity(LinkOf(sheet[j]))

(* C2: forward-only status.  A cell that holds SUBMITTED, in the status     *)
(* column J or in the column K where /approve writes that mark, still holds *)
(* it after every step (batch, /apply, /approve, reconciliation), in the    *)
(* same row.                                                                *)
StatusCols == {ColJ, ColK}

C2_ForwardOnly ==
  [][\A i \in DataRows(sheet) : \A c \in StatusCols :
       sheet[i][c] = StatusSUBMITTED =>
         /\ Moved(i, last') <= Len(sheet')
         /\ sheet'[Moved(i, last')][c] = StatusSUBMITTED]_vars

(* a row carries the SUBMITTED mark of /approve and a later batch has inserted *)
(* rows above it                                                             *)
C2_Witness ==
  /\ last.op = "scheduled_task"
  /\ last.arg.inserted > 0
  /\ \E i \in DataRows(sheet) :
       i > 1 + last.arg.inserted /\ sheet[i][ColK] = StatusSUBMITTED

(* C3: after /approve of a draft whose link is in the ledger, the row with  *)
(* that link has Status J = SUBMITTED, Resume K and Cover L = the draft's   *)
(* links, and its Response Status M is what it was.                         *)
C3_ApproveWritesRow ==
  [][(last'.op = "approve" /\ last'.out = "Approved") =>
       \A k \in 1..Len(last'.arg.sel) :
         LET e == last'.arg.sel[k]
         IN  \A i \in RowsWithLink(sheet, e.job.link) :
               /\ StatusOf(sheet'[i]) = StatusSUBMITTED
               /\ ResumeOf(sheet'[i]) = e.resume
               /\ CoverOf(sheet'[i]) = e.cover
               /\ ResponseOf(sheet'[i]) = ResponseOf(sheet[i])]_vars

(* C4: idempotent re-run.  A batch whose candidates include a link the      *)
(* ledger already holds leaves every row of that link as it was (moved down *)
(* by the rows inserted) and adds no row for it.                            *)
C4_IdempotentRerun ==
  [][last'.op = "scheduled_task" =>
       \A i \in DataRows(sheet) :
         LinkOf(sheet[i]) \in last'.arg.links =>
           /\ Moved(i, last') <= Len(sheet')
           /\ sheet'[Moved(i, last')] = sheet[i]
           /\ Cardinality(RowsWithLink(sheet', LinkOf(sheet[i])))
                = Cardinality(RowsWithLink(sheet, LinkOf(sheet[i])))]_vars

(* a batch has run whose candidates include the link of a row that carries  *)
(* the SUBMITTED mark                                                       *)
C4_Witness ==
  /\ last.op = "scheduled_task"
  /\ \E i \in DataRows(sheet) :
       /\ LinkOf(sheet[i]) \in last.arg.links
       /\ \E c \in StatusCols : sheet[i][c] = StatusSUBMITTED

(* C5: the rows one batch writes hold each identity once. *)
C5_BatchCollapses ==
  (last.op = "scheduled_task" /\ last.arg.inserted > 0) =>
    \A i, j \in 2..(1 + last.arg.inserted) :
      i # j => Identity(LinkOf(sheet[i])) # Identity(LinkOf(sheet[j]))

(* C6: two links have the same identity exactly when their canonical forms  *)
(* (the link without its query string) are equal, for the links recorded.   *)
C6_IdentityIsCanonical ==
  \A i, j \in DataRows(sheet) :
    (LinkOf(sheet[i]) # EMPTY /\ LinkOf(sheet[j]) # EMPTY) =>
      ((Identity(LinkOf(sheet[i])) = Identity(LinkOf(sheet[j])))
         <=> (Canon(LinkOf(sheet[i])) = Canon(LinkOf(sheet[j]))))

(* C7: atomic doc pair.  In every row the Resume File cell K is non-empty   *)
(* exactly when the Cover File cell L is; the same holds of the two cells   *)
(* L, M that /approve fills with the draft's resume and cover links.        *)
C7_AtomicDocPair ==
  \A i \in DataRows(sheet) :
    /\ (ResumeOf(sheet[i]) # EMPTY) <=> (CoverOf(sheet[i]) # EMPTY)
    /\ (sheet[i][ColL] # EMPTY) <=> (sheet[i][ColM] # EMPTY)

(* /approve has written a draft's links into a row *)
C7_Witness ==
  /\ last.op = "approve"
  /\ last.out = "Approved"
  /\ \E i \in DataRows(sheet) : ResumeOf(sheet[i]) # EMPTY /\ CoverOf(sheet[i]) # EMPTY

(* C8: a row with a non-empty Response Status (M) has Status (J) SUBMITTED. *)
C8_ResponseOnlyOnSubmitted ==
  \A i \in DataRows(sheet) :
    ResponseOf(sheet[i]) # EMPTY => StatusOf(sheet[i]) = StatusSUBMITTED

(* C9: a reconciliation that matched replies changes no cell other than the *)
(* Response Status (M) of a matched row.                                    *)
C9_ReconcileWritesOnlyResponse ==
  [][(last'.op = "process_responses" /\ last'.out # "No new responses"
        /\ last'.arg.matched # <<>>) =>
       \A i \in 1..Len(sheet') : \A c \in 1..NCols :
         \/ i <= Len(sheet) /\ sheet'[i][c] = sheet[i][c]
         \/ c = ColM /\ \E k \in 1..Len(last'.arg.matched) : last'.arg.matched[k].row = i]_vars

(* C10: failure isolation.  When document generation raises for one posting *)
(* of a selection, every other posting of the selection is still processed: *)
(* drafted by /apply, recorded SUBMITTED by the apply bot.                  *)
C10_FailureIsolation ==
  /\ (last.op = "apply" /\ last.out = "raised") =>
       \A l \in last.arg.others :
         \E n \in DOMAIN pending_drafts : pending_drafts[n].job.link = l
  /\ (last.op = "apply_bot" /\ last.out = "raised") =>
       \A l \in last.arg.others :
         \E i \in DataRows(sheet) :
           sheet[i][ColC] = l /\ sheet[i][ColE] = StatusSUBMITTED

(* a row of the ledger is well formed: it has its link, its date and a status *)
WellFormed(row) == LinkOf(row) # EMPTY /\ row[ColI] # EMPTY /\ StatusOf(row) # EMPTY

(* C11: crash tolerance.  The batch that runs after an aborted batch ends   *)
(* without error and, when it fetches the same links again, every link of   *)
(* the aborted batch is in the ledger in a well-formed row.                 *)
C11_CrashTolerance ==
  [][(last.op = "scheduled_task_aborted" /\ last'.op = "scheduled_task") =>
       /\ last'.out # "IndexError"
       /\ last'.arg.links = last.arg.links =>
            \A l \in last.arg.links :
              \E i \in DataRows(sheet') : LinkOf(sheet'[i]) = l /\ WellFormed(sheet'[i])]_vars

(* the position in msgs of the first reply whose classification raises *)
FirstRaise(msgs) ==
  CHOOSE f \in 1..Len(msgs) :
    msgs[f].cls = "RAISE" /\ \A g \in 1..(f - 1) : msgs[g].cls # "RAISE"

(* C12: when the classification of a reply fails, no cell is written for    *)
(* that reply and every later reply of the poll that matches a row and is   *)
(* classified is still reconciled.                                          *)
C12_ClassifyFailureIsolated ==
  (last.op = "process_responses" /\ last.out = "classify raised") =>
    LET msgs == last.arg.msgs
        done == last.arg.matched
        f    == FirstRaise(msgs)
    IN  /\ \A k \in 1..Len(done) : done[k].msg # f
        /\ \A j \in (f + 1)..Len(msgs) :
             (msgs[j].cls # "RAISE" /\ MatchRow(ValuesGet(sheet, ColC), msgs[j].subject) # 0)
               => \E k \in 1..Len(done) : done[k].msg = j

(* C13: reconciliation idempotence.  When a poll that reconciled at least   *)
(* one reply is followed by a poll that lists the same replies again, the   *)
(* second ends without error and leaves every cell of the sheet as the      *)
(* first left it.                                                           *)
C13_ReconcileIdempotent ==
  [][(/\ last.op = "process_responses" /\ last.out = "done"
      /\ last.arg.matched # <<>>
      /\ last'.op = "process_responses" /\ last'.out # "No new responses"
      /\ last'.arg.msgs = last.arg.msgs) =>
       (last'.out = "done" /\ sheet' = sheet /\ last'.arg.matched = last.arg.matched)]_vars

(* a poll has reconciled a reply that the previous poll had reconciled, and *)
(* the written cell holds its classification                                *)
C13_Witness ==
  /\ last.op = "process_responses" /\ last.out = "done"
  /\ last.arg.redelivered
  /\ last.arg.matched # <<>>
  /\ sheet[last.arg.matched[1].written][ColF] = last.arg.matched[1].cls

(* the rows the apply bot has recorded as submitted (status in column E) whose *)
(* link (column C) is contained in subject; the bot appends, so of two such  *)
(* rows the lower one was submitted later                                    *)
SubmittedHits(s, subject) ==
  {i \in DataRows(s) : /\ s[i][ColC] # EMPTY
                       /\ Contains(s[i][ColC], subject)
                       /\ s[i][ColE] = StatusSUBMITTED}

(* C14: when the subject of a reply contains the link of more than one      *)
(* submitted row, the reconciler writes to the most recently submitted of   *)
(* them; when no reply of the poll matches a row, no cell is written.       *)
C14_PrefersLatestSubmitted ==
  [][(last'.op = "process_responses" /\ last'.out # "No new responses") =>
       /\ last'.arg.matched = <<>> => sheet' = sheet
       /\ \A k \in 1..Len(last'.arg.matched) :
            LET e    == last'.arg.matched[k]
                hits == SubmittedHits(sheet, last'.arg.msgs[e.msg].subject)
            IN  Cardinality(hits) > 1 => e.written = Max(hits)]_vars

(* C15: per-source fetch isolation.  Whatever sources raise, fetch_jobs     *)
(* returns every candidate of every source that did not raise, and no batch *)
(* run is ended by a source that raises.                                    *)
C15_FetchIsolation ==
  /\ \A pages \in PageSeqs : \A n \in 1..Len(pages) :
       pages[n].ok => LinksOf(pages[n].jobs) \subseteq LinksOf(FetchJobs(pages, Len(pages)))
  /\ last.out # "fetch raised"

(* the counts the batch summary is to carry *)
SummaryCounts == {"discovered", "new", "filtered_out", "docs_ready", "submitted", "failed"}

(* C16: a batch run that completes has sent exactly one notification, on    *)
(* each of its paths, and that notification carries the six counts.         *)
C16_OneSummaryWithCounts ==
  (last.op = "scheduled_task" /\ last.out # "IndexError") =>
    /\ Len(last.arg.sent) = 1
    /\ SummaryCounts \subseteq DOMAIN last.arg.sent[1].counts

StatusFILTERED_OUT == <<"FILTERED_OUT">>

(* the rows the last batch wrote: rows 2 .. 1 + inserted *)
BatchRows(l) == 2..(1 + l.arg.inserted)

(* C17: a new posting the relevance step judges irrelevant has status       *)
(* FILTERED_OUT in its row, and no draft is ever generated for a posting    *)
(* the relevance step rejects.                                              *)
C17_FilteredOut ==
  /\ (last.op = "scheduled_task" /\ last.arg.inserted > 0) =>
       \A k \in 1..Len(last.arg.new) : \A i \in BatchRows(last) :
         (LinkOf(sheet[i]) = last.arg.new[k].link /\ ~Relevant(last.arg.new[k], Cfg))
           => StatusOf(sheet[i]) = StatusFILTERED_OUT
  /\ \A n \in DOMAIN pending_drafts : Relevant(pending_drafts[n].job, Cfg)

(* the relevance of the posting cannot be computed: its page gave no        *)
(* location (the fetch failed) or the geocoder gave no distance             *)
CollaboratorFailed(link) == JobDetails(link).loc = EMPTY \/ JobDetails(link).dist = -1

(* the links the last batch reported as relevant *)
ReportedRelevant(l) ==
  {l.arg.sent[1].list[i].link : i \in 1..Len(l.arg.sent[1].list)}

(* C18: fail-open.  A new posting with a configured title whose detail      *)
(* fetch or geocoding failed is treated as relevant by the batch.           *)
C18_FailOpen ==
  (last.op = "scheduled_task" /\ last.arg.inserted > 0) =>
    \A k \in 1..Len(last.arg.new) :
      LET j == last.arg.new[k]
      IN  (/\ \E i \in BatchRows(last) : LinkOf(sheet[i]) = j.link
           /\ \E t \in Cfg.job_titles : Contains(t, j.title)
           /\ CollaboratorFailed(j.link))
            => j.link \in ReportedRelevant(last)

(* short is long with some elements left out, the others in the same order *)
OrderedSubseq(short, long) ==
  \E f \in [1..Len(short) -> 1..Len(long)] :
    /\ \A i \in 1..Len(short) : long[f[i]] = short[i]
    /\ \A i, j \in 1..Len(short) : i < j => f[i] < f[j]

(* the positions in idx increase: the elements kept keep their order *)
Increasing(idx) == \A i, j \in 1..Len(idx) : i < j => idx[i] < idx[j]

(* C19: stability.  For every candidate sequence, the positions that        *)
(* survive dedup against the ledger, and of those the positions that        *)
(* survive the filter, are in increasing order of position; the rows a      *)
(* batch writes are its new postings in order, and the numbered list of the *)
(* summary presents the relevant ones in that order, numbered from 1.       *)
C19_StableOrder ==
  /\ ~ExistRaises(sheet) =>
       \A jobs \in BatchJobSeqs :
         LET idx == NewIdx(jobs, Exist(sheet), Len(jobs))
             rel == FilterIdx(jobs, Cfg, idx, Len(idx))
         IN  /\ Increasing(idx) /\ Increasing(rel)
             /\ {idx[i] : i \in 1..Len(idx)} \subseteq 1..Len(jobs)
             /\ {rel[i] : i \in 1..Len(rel)} \subseteq {idx[i] : i \in 1..Len(idx)}
  /\ (last.op = "scheduled_task" /\ last.arg.inserted > 0) =>
       LET new   == [i \in 1..Len(last.arg.new) |-> last.arg.new[i].link]
           list  == last.arg.sent[1].list
           shown == [i \in 1..Len(list) |-> list[i].link]
       IN  /\ new = [i \in 1..last.arg.inserted |-> LinkOf(sheet[1 + i])]
           /\ OrderedSubseq(shown, new)
           /\ \A i \in 1..Len(list) : list[i].n = i
           /\ shown # <<>> =>
                shown = [i \in 1..Len(new_jobs_cache) |-> new_jobs_cache[i].link]

(* a batch has recorded two different postings and listed both as relevant *)
C19_Witness ==
  /\ last.op = "scheduled_task"
  /\ last.arg.inserted = 2
  /\ Len(last.arg.sent[1].list) = 2
  /\ last.arg.sent[1].list[1].link # last.arg.sent[1].list[2].link

(* the entry of the reply at which the poll ended: the last one matched *)
LastMatched(l) == l.arg.matched[Len(l.arg.matched)]

ResponseValues == {<<"positive">>, <<"negative">>}

(* C21: the Response Status of every row, and every cell the reconciler has *)
(* just written for a matched reply, is empty or one of positive/negative,  *)
(* whatever text the classifier returned.                                   *)
C21_ResponseStatusEnum ==
  /\ \A i \in DataRows(sheet) : ResponseOf(sheet[i]) \in {EMPTY} \cup ResponseValues
  /\ (last.op = "process_responses" /\ last.out # "No new responses") =>
       \A k \in 1..Len(last.arg.matched) :
         sheet[last.arg.matched[k].written][ColF] \in {EMPTY} \cup ResponseValues

(* the points of a batch at which a per-posting external call is under way *)
PerPostingCalls == {"details", "filter"}

(* C22: when a batch ends during a per-posting external call (detail fetch, *)
(* company-info lookup, relevance filtering), every new posting of that     *)
(* batch already has its row at status NEW in the ledger.                   *)
C22_RowBeforeCalls ==
  (last.op = "scheduled_task_aborted" /\ last.out \in PerPostingCalls) =>
    \A k \in 1..Len(last.arg.new) :
      \E i \in DataRows(sheet) :
        /\ LinkOf(sheet[i]) = last.arg.new[k].link
        /\ StatusOf(sheet[i]) = StatusNEW

(* the rows of t that differ from the rows of s, or that s does not have *)
ChangedRows(s, t) == {i \in 1..Len(t) : i > Len(s) \/ t[i] # s[i]}

(* C23: row targeting.  Every row that /approve writes is a row whose Job    *)
(* Link cell equals the link of a selected draft, and every row that the    *)
(* reconciler writes is a row at which a reply matched.                     *)
C23_RowTargeting ==
  [][/\ (last'.op = "approve" /\ last'.out = "Approved") =>
          \A i \in ChangedRows(sheet, sheet') :
            /\ i \in DataRows(sheet)
            /\ \E k \in 1..Len(last'.arg.sel) :
                 LinkOf(sheet[i]) = last'.arg.sel[k].job.link
     /\ (last'.op = "process_responses" /\ last'.out # "No new responses") =>
          \A i \in ChangedRows(sheet, sheet') :
            /\ i \in DataRows(sheet)
            /\ \E k \in 1..Len(last'.arg.matched) : last'.arg.matched[k].row = i]_vars

(* C24: /apply index binding.  After /apply has stored drafts, every key n  *)
(* of pending_drafts is a number of the list, 1..len(new_jobs_cache), and   *)
(* the entry under it holds the posting listed as number n.                 *)
C24_IndexBinding ==
  (last.op = "apply" /\ last.out = "Drafts") =>
    \A n \in DOMAIN pending_drafts :
      /\ n \in 1..Len(new_jobs_cache)
      /\ pending_drafts[n].job = new_jobs_cache[n]

(* C25: new_jobs_cache holds only postings that filter_jobs kept, and so do *)
(* the drafts /apply has made from it.                                      *)
C25_CacheOnlyRelevant ==
  /\ \A k \in 1..Len(new_jobs_cache) : Relevant(new_jobs_cache[k], Cfg)
  /\ \A n \in DOMAIN pending_drafts : Relevant(pending_drafts[n].job, Cfg)

(* C26: at-most-once approval.  An /approve that selects no valid draft     *)
(* leaves the ledger and pending_drafts as they were; every other /approve  *)
(* leaves pending_drafts empty.                                             *)
C26_AtMostOnceApproval ==
  [][last'.op = "approve" =>
       IF last'.out = "No valid drafts to approve."
       THEN sheet' = sheet /\ pending_drafts' = pending_drafts
       ELSE pending_drafts' = EmptyDict]_vars

====
